---- MODULE Spec2Model ----
(***************************************************************************)
(* Real-time face recognition loop of FaceDetection/04_recognition_        *)
(* realtime.py: the matcher (recognize_face), the overlay                  *)
(* (draw_face_box) and the frame loop with its persistence memory (run).   *)
(*                                                                         *)
(* Numbers.  numpy floats are held in fixed point:                         *)
(*   - an embedding component is an integer number of 1/Q units;           *)
(*   - a distance is an integer number of 1/(Q*Q) units, so 1.0 = DistOne; *)
(*   - a detector confidence is an integer number of hundredths;           *)
(*   - a reliability is an integer number of 1/PCT percent.                *)
(* A float operation that rounds (the division by the norm, the square     *)
(* root) rounds to the nearest unit here.                                  *)
(***************************************************************************)
EXTENDS Integers, Sequences, FiniteSets, TLC

\* ---------------------------------------------------------------- bounds
\* Frames captured in one session (frame_count is unbounded in the code).
MaxFrames == 46
\* Detections the detector returns for one frame.
MaxDetections == 2

\* Image files in one person's directory.
MaxImages == 2

\* ------------------------------------------------------ program constants
\* Units per 1.0 of an embedding component.
Q == 100
DistOne == Q * Q
\* config.py: DISTANCE_THRESHOLD = 0.6, in distance units.
DISTANCE_THRESHOLD == 6000
\* config.py: CONFIDENCE_THRESHOLD = 0.9, in hundredths.
CONFIDENCE_THRESHOLD == 90
\* draw_face_box: the literal 0.8, in distance units.
RELIABILITY_SPAN == 8000
\* draw_face_box: the literal 60 (percent) of "reliability > 60".
HIGH_CONFIDENCE == 60
\* run: process_every_n_frames = 15.
process_every_n_frames == 15
\* run: PERSISTENCE_LIMIT = 20.
PERSISTENCE_LIMIT == 20
\* run: cap.set(CAP_PROP_FRAME_WIDTH, 640), cap.set(CAP_PROP_FRAME_HEIGHT, 480).
FRAME_WIDTH == 640
FRAME_HEIGHT == 480
\* Reliability units per percent: (SPAN - d) / SPAN * 100 is then exact.
PCT == RELIABILITY_SPAN \div 100

\* Python's None (recognize_face returns it for "no identity").
None == "None"

\* config.IMAGE_SIZE
IMAGE_SIZE == 160

\* ------------------------------------------------------------ arithmetic
Abs(x) == IF x < 0 THEN -x ELSE x
Max2(a, b) == IF a >= b THEN a ELSE b
Min2(a, b) == IF a <= b THEN a ELSE b

RECURSIVE ISqrtIter(_, _, _)
\* Largest r in lo..hi with r * r <= n (lo * lo <= n < (hi + 1) * (hi + 1)).
ISqrtIter(n, lo, hi) ==
    IF lo >= hi THEN lo
    ELSE LET mid == (lo + hi + 1) \div 2
         IN  IF mid * mid <= n THEN ISqrtIter(n, mid, hi)
                               ELSE ISqrtIter(n, lo, mid - 1)

\* floor(sqrt(n)); the search stays below the 32-bit limit of mid * mid.
ISqrt(n) == ISqrtIter(n, 0, Min2(n, 46340))

\* sqrt(n) rounded to the nearest integer.
RoundSqrt(n) ==
    LET r == ISqrt(n) IN IF n - r * r > r THEN r + 1 ELSE r

\* a / b rounded to the nearest integer, b > 0.
RoundDiv(a, b) ==
    IF a >= 0 THEN (2 * a + b) \div (2 * b) ELSE -((2 * (-a) + b) \div (2 * b))

RECURSIVE SumSeq(_)
SumSeq(s) == IF s = <<>> THEN 0 ELSE Head(s) + SumSeq(Tail(s))

\* np.dot(a, b), in 1/(Q*Q) units when a and b are in 1/Q units.
Dot(a, b) == SumSeq([i \in 1..Len(a) |-> a[i] * b[i]])

\* ------------------------------------------------------------ embeddings
\* The float nan, as a component no finite value in 1/Q units equals.
NaN == 1000 * Q

\* embedding / np.linalg.norm(embedding): the raw vector of the embedder
\* (in whole units) divided by its norm, each step rounded to 1/Q.  The
\* norm of the zero vector is 0.0 and numpy's 0.0 / 0.0 is nan (a warning,
\* no exception), in every component.
Normalize(raw) ==
    LET norm == RoundSqrt(Dot(raw, raw) * DistOne)
    IN  IF norm = 0
        THEN [i \in 1..Len(raw) |-> NaN]
        ELSE [i \in 1..Len(raw) |-> RoundDiv(raw[i] * DistOne, norm)]

\* np.linalg.norm(embedding1 - embedding2), in distance units.
euclidean_distance(embedding1, embedding2) ==
    LET diff == [i \in 1..Len(embedding1) |-> embedding1[i] - embedding2[i]]
    IN  RoundSqrt(Dot(diff, diff) * DistOne)

\* 1 - np.dot(embedding1, embedding2), in distance units.
cosine_distance(embedding1, embedding2) ==
    DistOne - Dot(embedding1, embedding2)

\* The distance list built by the for loop of recognize_face.
Distances(db, face_embedding, use_cos) ==
    [i \in 1..Len(db.embeddings) |->
        IF use_cos THEN cosine_distance(face_embedding, db.embeddings[i])
                   ELSE euclidean_distance(face_embedding, db.embeddings[i])]

RECURSIVE ArgMinFrom(_, _, _)
\* np.argmin: scan from index i with the best index so far; a later element
\* replaces the best only when strictly smaller, so the first minimum wins.
ArgMinFrom(distances, i, best) ==
    IF i > Len(distances) THEN best
    ELSE ArgMinFrom(distances, i + 1,
                    IF distances[i] < distances[best] THEN i ELSE best)

RECURSIVE ArgMinLastFrom(_, _, _)
\* A scan that lets a later equal element replace the best.
ArgMinLastFrom(distances, i, best) ==
    IF i > Len(distances) THEN best
    ELSE ArgMinLastFrom(distances, i + 1,
                        IF distances[i] <= distances[best] THEN i ELSE best)

\* Variant of ArgMin: the last minimum wins.
ArgMinLast(distances) == ArgMinLastFrom(distances, 2, 1)

ArgMin(distances) == ArgMinFrom(distances, 2, 1)

\* Variant of WithinThreshold: a distance equal to the threshold is accepted.
WithinThresholdInclusive(min_distance) == min_distance <= DISTANCE_THRESHOLD

\* The accept test of recognize_face.
WithinThreshold(min_distance) == min_distance < DISTANCE_THRESHOLD

\* Variant of MatcherRaises: the matcher answers "unknown" instead.
MatcherUnknown == [raised |-> FALSE, name |-> None, distance |-> 0]

\* What recognize_face yields when one of its numpy calls raises.
MatcherRaises == [raised |-> TRUE, name |-> None, distance |-> 0]

\* recognize_face: the pair (name, distance).  It raises when a stored
\* vector has another length than the query (ValueError of the subtraction
\* or of np.dot), when np.argmin gets an empty array (ValueError: the
\* database holds no embedding) and when labels has no entry at the index
\* of the minimum (IndexError).
recognize_face(db, face_embedding, use_cos) ==
    IF \E i \in 1..Len(db.embeddings) :
           Len(db.embeddings[i]) # Len(face_embedding)
    THEN MatcherRaises
    ELSE
    LET distances == Distances(db, face_embedding, use_cos)
    IN  IF Len(distances) = 0
        THEN MatcherRaises
        ELSE LET min_distance_idx == ArgMin(distances)
                 min_distance == distances[min_distance_idx]
             IN  IF WithinThreshold(min_distance)
                 THEN (IF min_distance_idx > Len(db.labels)
                       THEN MatcherRaises
                       ELSE [raised |-> FALSE,
                             name |-> db.labels[min_distance_idx],
                             distance |-> min_distance])
                 ELSE [raised |-> FALSE, name |-> None,
                       distance |-> min_distance]

\* --------------------------------------------------------------- overlay
\* reliability = max(0.0, (0.8 - distance) / 0.8 * 100).  run always passes
\* the number recognize_face returned, so "distance is not None" holds.
Reliability(distance) ==
    Max2(0, ((RELIABILITY_SPAN - distance) * 100 * PCT) \div RELIABILITY_SPAN)

\* draw_face_box: what is drawn for one face.
draw_face_box(detection, name, distance) ==
    LET reliability == Reliability(distance)
        named == name # None /\ name # ""
        \* "if distance" is false for 0.0
        has_distance == distance # 0
    IN  [x |-> Abs(detection.box[1]),
         y |-> Abs(detection.box[2]),
         reliability |-> reliability,
         color |-> IF named
                   THEN (IF reliability > HIGH_CONFIDENCE * PCT
                         THEN "green" ELSE "yellow")
                   ELSE "red",
         label |-> IF named THEN name ELSE "Desconocido",
         conf_text |-> IF named \/ has_distance
                       THEN <<reliability>> ELSE <<>>]

\* ------------------------------------------------------------------ crop
\* int(0.15 * max(width, height))
Margin(box) == (15 * Max2(box[3], box[4])) \div 100

\* face = rgb_frame[y1:y2, x1:x2]; the number of pixels of the slice.
CropSize(box) ==
    LET x == Abs(box[1])
        y == Abs(box[2])
        margin == Margin(box)
        x1 == Max2(0, x - margin)
        y1 == Max2(0, y - margin)
        x2 == Min2(FRAME_WIDTH, x + box[3] + margin)
        y2 == Min2(FRAME_HEIGHT, y + box[4] + margin)
    IN  Max2(0, y2 - y1) * Max2(0, x2 - x1)

\* align_face up to the slice: x, y, x2, y2 of face = image[y:y2, x:x2].
\* shape is (width, height) of the image, box is (x, y, width, height).
AlignSlice(shape, box) ==
    LET x == Abs(box[1])
        y == Abs(box[2])
        x2 == x + box[3]
        y2 == y + box[4]
        x_margin == (15 * box[3]) \div 100
        y_margin == (15 * box[4]) \div 100
    IN  << Max2(0, x - x_margin), Max2(0, y - y_margin),
           Min2(shape[1], x2 + x_margin), Min2(shape[2], y2 + y_margin) >>

\* face.size of that slice.
AlignFaceSize(shape, box) ==
    LET s == AlignSlice(shape, box)
    IN  Max2(0, s[4] - s[2]) * Max2(0, s[3] - s[1])

\* What align_face returns: None, or the slice resized to
\* output_size x output_size.
align_face(shape, box, output_size) ==
    IF AlignFaceSize(shape, box) = 0
    THEN [empty |-> TRUE, width |-> 0, height |-> 0]
    ELSE [empty |-> FALSE, width |-> output_size, height |-> output_size]

\* ---------------------------------------------------------------- inputs
\* Raw vectors the embedder returns.
RawVectors ==
    { <<3, 4>>, <<4, 3>>, <<1, 1>>, <<1, 0>>, <<0, 1>>,
      <<10, 23>>, <<-3, 4>>, <<-1, 0>> }

\* A database as generate_embeddings writes it: every vector normalised.
MkStore(raws, labels) ==
    [embeddings |-> [i \in 1..Len(raws) |-> Normalize(raws[i])],
     labels |-> labels,
     image_paths |-> [i \in 1..Len(raws) |-> i]]

EmptyStore == MkStore(<<>>, <<>>)
StoreAnaLuis == MkStore(<< <<3, 4>>, <<4, 3>> >>, <<"Ana", "Luis">>)
StoreLuisAna == MkStore(<< <<4, 3>>, <<3, 4>> >>, <<"Luis", "Ana">>)
StoreThree ==
    MkStore(<< <<1, 0>>, <<1, 1>>, <<0, 1>> >>, <<"Ana", "Ana", "Luis">>)
StoreOne == MkStore(<< <<1, 0>> >>, <<"Ana">>)
StoreTwins == MkStore(<< <<1, 1>>, <<1, 1>> >>, <<"Luis", "Ana">>)

\* Databases no generate_embeddings run wrote, which pickle.load accepts
\* all the same: a label missing, vectors of another dimension.
StoreShortLabels == [StoreAnaLuis EXCEPT !.labels = <<"Ana">>]
StoreWrongDim == MkStore(<< <<1, 2, 2>> >>, <<"Ana">>)

Stores ==
    { EmptyStore, StoreAnaLuis, StoreLuisAna, StoreThree, StoreOne,
      StoreTwins, StoreWrongDim }

\* Stores and embedder outputs of the frame loop.
RunStores == { EmptyStore, StoreAnaLuis, StoreShortLabels }

\* The file face_embeddings.pkl at the start of a session: absent, not
\* loadable by pickle, or holding a database.
DatabaseFiles ==
    { [exists |-> FALSE, loadable |-> FALSE, content |-> EmptyStore],
      [exists |-> TRUE, loadable |-> FALSE, content |-> EmptyStore] }
    \cup { [exists |-> TRUE, loadable |-> TRUE, content |-> s] :
              s \in RunStores }
RunRawVectors == { <<3, 4>>, <<-3, 4>> }

\* self.embedder.embeddings(face_batch)[0]: a raw vector, or an exception.
EmbedderRaises == [raised |-> TRUE, vector |-> <<>>]
EmbedderOutcomes(raws) ==
    { EmbedderRaises } \cup { [raised |-> FALSE, vector |-> v] : v \in raws }

\* get_face_embedding on one embedder outcome, then recognize_face.
Recognize(db, outcome, use_cos) ==
    IF outcome.raised
    THEN [raised |-> TRUE, name |-> None, distance |-> 0]
    ELSE recognize_face(db, Normalize(outcome.vector), use_cos)

\* Detections the detector returns: box (x, y, width, height), confidence.
DetectionUniverse ==
    { [box |-> <<100, 100, 200, 200>>, confidence |-> 99],
      [box |-> <<-10, 50, 100, 100>>, confidence |-> 90],
      [box |-> <<700, 100, 50, 50>>, confidence |-> 95],
      [box |-> <<300, 200, 120, 150>>, confidence |-> 89] }

RECURSIVE SeqsUpTo(_, _)
\* All sequences over S of length at most n.
SeqsUpTo(S, n) ==
    IF n = 0 THEN { <<>> }
    ELSE LET shorter == SeqsUpTo(S, n - 1)
         IN  shorter \cup { Append(s, x) : s \in shorter, x \in S }

\* What detect_faces returns for one frame: every face once.
DetectorOutputs ==
    { s \in SeqsUpTo(DetectionUniverse, MaxDetections) :
        \A i, j \in 1..Len(s) : i # j => s[i] # s[j] }

\* ----------------------------------------------------------------- state
VARIABLES
    database,                  \* self.database
    frame_count,               \* run: frame_count
    frames_without_detection,  \* run: frames_without_detection
    active_faces,              \* run: active_faces
    use_cosine,                \* run: use_cosine
    detections,                \* run: detections (this cycle)
    det_idx,                   \* run: position of the for loop in detections
    current_detected_faces,    \* run: current_detected_faces (this cycle)
    rendered,                  \* what draw_face_box drew on display_frame
    status_color,              \* run: status_color of the last imshow
    pc,                        \* position in main and in the while loop
    \* history of the session, read by the properties only
    cycles_entered,            \* times the try block of FASE 1 was entered
    cycle_outcome,             \* how this frame's cycle ended
    failed_idx,                \* index of the detection whose handling raised
    frames_rendered,           \* frames shown with imshow
    exit_reason,               \* why the session ended
    last_success_frame,        \* frame of the last cycle with results
    last_success_results,      \* the results of that cycle
    misses_since_success,      \* cycles without results since then
    blank_since_success,       \* a frame was shown with no face since then
    gap,                       \* what a cycle with results replaced (until
                               \* FASE 2): the history above, the old memory
    embedded,                  \* detections handed to get_face_embedding in
                               \* this cycle (until FASE 2)
    cycle_start,               \* the memory and the counter when this
                               \* frame's cycle was entered (until FASE 2)
    key_history,               \* the last key waitKey returned, how often in
                               \* a row, use_cosine before and after
    \* the matcher applied to one query
    m_pc, m_raw, m_cos, m_query, m_result, m_drawn,
    \* align_face applied to one detection
    a_pc, a_shape, a_box, a_size, a_face,
    \* generate_embeddings
    g_pc,                      \* position in generate_embeddings
    g_tree,                    \* persons not yet begun, with their files
    g_person,                  \* person_name
    g_files,                   \* image_files of person_name not yet handled
    g_db,                      \* embeddings_database
    g_saved,                   \* what pickle.dump wrote, None before
    g_log                      \* history: path and outcome of every image

runVars ==
    << frame_count, frames_without_detection, active_faces, use_cosine,
       detections, det_idx, current_detected_faces, rendered, status_color,
       pc, cycles_entered, cycle_outcome, failed_idx, frames_rendered,
       exit_reason, last_success_frame, last_success_results,
       misses_since_success, blank_since_success, gap, embedded,
       cycle_start, key_history >>

matchVars == << m_pc, m_raw, m_cos, m_query, m_result, m_drawn >>

alignVars == << a_pc, a_shape, a_box, a_size, a_face >>

genVars == << g_pc, g_tree, g_person, g_files, g_db, g_saved, g_log >>

vars == << database, runVars, matchVars, alignVars, genVars >>

NoGap == [valid |-> FALSE, misses |-> 0, blank |-> FALSE, prev |-> <<>>]

\* No cycle is under way.
NoCycle == [entered |-> FALSE, active |-> <<>>, fwd |-> 0]

\* No key has been read yet; use_cosine = True.
NoKey == [last |-> "none", count |-> 0, before |-> TRUE, after_first |-> TRUE]

\* The locals of run before the while loop.
RunLocalsInit ==
    /\ frame_count = 0
    /\ frames_without_detection = 0
    /\ active_faces = <<>>
    /\ use_cosine = TRUE
    /\ detections = <<>>
    /\ det_idx = 0
    /\ current_detected_faces = <<>>
    /\ rendered = <<>>
    /\ status_color = "none"
    /\ cycles_entered = 0
    /\ cycle_outcome = "none"
    /\ failed_idx = 0
    /\ frames_rendered = 0
    /\ exit_reason = "none"
    /\ last_success_frame = 0
    /\ last_success_results = <<>>
    /\ misses_since_success = 0
    /\ blank_since_success = FALSE
    /\ gap = NoGap
    /\ embedded = <<>>
    /\ cycle_start = NoCycle
    /\ key_history = NoKey

MatchIdle ==
    /\ m_pc = "off"
    /\ m_raw = <<>>
    /\ m_cos = FALSE
    /\ m_query = <<>>
    /\ m_result = None
    /\ m_drawn = None

AlignIdle ==
    /\ a_pc = "off"
    /\ a_shape = <<>>
    /\ a_box = <<>>
    /\ a_size = 0
    /\ a_face = None

\* embeddings_database as line 87 creates it.
NewDatabase == [embeddings |-> <<>>, labels |-> <<>>, image_paths |-> <<>>]

GenIdle ==
    /\ g_pc = "off"
    /\ g_tree = <<>>
    /\ g_person = None
    /\ g_files = <<>>
    /\ g_db = NewDatabase
    /\ g_saved = None
    /\ g_log = <<>>

\* main is about to construct FaceRecognitionSystem: self.database = None.
Init ==
    /\ database = None
    /\ RunLocalsInit
    /\ pc = "start"
    /\ MatchIdle
    /\ AlignIdle
    /\ GenIdle

\* ----------------------------------------------------------- the start
\* Variant of OnStoreNotFound: main goes on to run without a database.
OnStoreNotFoundRun == "open_camera"

\* Where main continues after "except FileNotFoundError as e: print(...)".
OnStoreNotFound == "aborted"

\* main: FaceRecognitionSystem(), i.e. load_models and load_database, then
\* the call of run.  load_database raises FileNotFoundError when the file
\* is absent; what pickle.load raises reaches "except Exception" of main.
Startup ==
    /\ pc = "start"
    /\ \E file \in DatabaseFiles :
        IF ~file.exists
        THEN /\ pc' = OnStoreNotFound
             /\ exit_reason' = "store_not_found"
             /\ UNCHANGED database
        ELSE IF ~file.loadable
        THEN /\ pc' = "aborted"
             /\ exit_reason' = "startup_error"
             /\ UNCHANGED database
        ELSE /\ pc' = "open_camera"
             /\ database' = file.content
             /\ UNCHANGED exit_reason
    /\ UNCHANGED << frame_count, frames_without_detection, active_faces,
                    use_cosine, detections, det_idx, current_detected_faces,
                    rendered, status_color, cycles_entered, cycle_outcome,
                    failed_idx, frames_rendered, last_success_frame,
                    last_success_results, misses_since_success,
                    blank_since_success, gap, embedded, key_history,
                    cycle_start,
                    matchVars, alignVars, genVars >>

\* run: cap = cv2.VideoCapture(0); "if not cap.isOpened(): return".
OpenCamera ==
    /\ pc = "open_camera"
    /\ \E opened \in BOOLEAN :
        /\ pc' = IF opened THEN "capture" ELSE "aborted"
        /\ exit_reason' = IF opened THEN exit_reason ELSE "no_camera"
    /\ UNCHANGED << database, frame_count, frames_without_detection,
                    active_faces, use_cosine, detections, det_idx,
                    current_detected_faces, rendered, status_color,
                    cycles_entered, cycle_outcome, failed_idx,
                    frames_rendered, last_success_frame,
                    last_success_results, misses_since_success,
                    blank_since_success, gap, embedded, key_history,
                    cycle_start,
                    matchVars, alignVars, genVars >>

\* ------------------------------------------------------- the frame loop
\* Variant of DetectionDue: the cycle runs on the frame after each multiple.
DetectionDueShifted(fc) == fc % process_every_n_frames = 1

\* frame_count % process_every_n_frames == 0
DetectionDue(fc) == fc % process_every_n_frames = 0

\* Variant of Stale: the memory is never dropped.
StaleNever(fwd) == FALSE

\* Variant of Stale: the memory is dropped one frame late.
StaleOneLate(fwd) == fwd > PERSISTENCE_LIMIT + 1

\* Variant of Stale: the memory is dropped one frame early.
StaleAtLimit(fwd) == fwd >= PERSISTENCE_LIMIT

\* frames_without_detection > PERSISTENCE_LIMIT
Stale(fwd) == fwd > PERSISTENCE_LIMIT

\* Variant of PersistActive: new results are added to the old entries.
PersistActiveMerge(active, current) ==
    IF Len(current) > 0
    THEN current \o SelectSeq(active,
                              LAMBDA e : \A j \in 1..Len(current) :
                                            current[j] # e)
    ELSE active

\* Variant of PersistActive: a cycle without results clears the memory.
PersistActiveClear(active, current) ==
    IF Len(current) > 0 THEN current ELSE <<>>

\* "if len(current_detected_faces) > 0: active_faces = current_detected_faces"
PersistActive(active, current) ==
    IF Len(current) > 0 THEN current ELSE active

\* Variant of PersistCounter: a cycle with results leaves the counter alone.
PersistCounterKeep(fwd, current) == fwd

\* "... frames_without_detection = 0", else untouched
PersistCounter(fwd, current) ==
    IF Len(current) > 0 THEN 0 ELSE fwd

\* Variant of OnException: the exception leaves the while loop.
OnExceptionCrash == "done"

\* Where control continues after "except Exception as e: print(...)".
OnException == "cleanup"

\* status_color
StatusColor(fwd) == IF fwd < PERSISTENCE_LIMIT THEN "green" ELSE "red"

\* Variant of LowConfidence: a detection at the threshold is discarded too.
LowConfidenceInclusive(detection) ==
    detection.confidence <= CONFIDENCE_THRESHOLD

\* detection['confidence'] < CONFIDENCE_THRESHOLD: continue
LowConfidence(detection) == detection.confidence < CONFIDENCE_THRESHOLD

\* Variant of EmptyCrop: an empty slice is handed on to cv2.resize.
EmptyCropNever(box) == FALSE

\* "if face.size == 0: continue"
EmptyCrop(box) == CropSize(box) = 0

\* Variant of DatabaseAfterRecognize: the matcher enrols the face it saw.
DatabaseLearns(db, face_embedding) ==
    [db EXCEPT !.embeddings = Append(@, face_embedding),
               !.labels = Append(@, "Nuevo")]

\* self.database after recognize_face: the method reads
\* self.database['embeddings'] and self.database['labels'], assigns neither.
DatabaseAfterRecognize(db, face_embedding) == db

\* Variant of AfterKey: the quit key is ignored.
AfterKeyIgnoreQuit(key) == "capture"

\* "if key == ord('q'): break", else the next pass of the while loop.
AfterKey(key) == IF key = "q" THEN "done" ELSE "capture"

\* Variant of ActiveAfterKey: the metric key drops the remembered faces.
ActiveAfterKeyClear(key, active) == IF key = "c" THEN <<>> ELSE active

\* active_faces after the key poll: neither branch assigns it.
ActiveAfterKey(key, active) == active

\* Variant of ToggleMetric: the key selects the cosine metric.
SetCosine(key, cos) == IF key = "c" THEN TRUE ELSE cos

\* "elif key == ord('c'): use_cosine = not use_cosine"
ToggleMetric(key, cos) == IF key = "c" THEN ~cos ELSE cos

\* The history of the keys after waitKey returned key.
KeyHistoryAfter(h, key, cos, cos_after) ==
    IF key = h.last
    THEN [last |-> key,
          count |-> 2,
          before |-> IF h.count = 1 THEN h.before ELSE h.after_first,
          after_first |-> cos]
    ELSE [last |-> key, count |-> 1, before |-> cos,
          after_first |-> cos_after]

\* Variant of ActiveAfterException: the results gathered before the
\* exception are installed, as by a finally clause.
ActiveAfterExceptionInstall(active, current) ==
    IF Len(current) > 0 THEN current ELSE active

\* active_faces after "except Exception as e: print(...)": the persistence
\* logic sits inside the try block and is jumped over.
ActiveAfterException(active, current) == active

\* A cycle left through the except clause, and its bookkeeping.
Raised(idx) ==
    /\ pc' = OnException
    /\ active_faces' = ActiveAfterException(active_faces,
                                            current_detected_faces)
    /\ cycle_outcome' = "raised"
    /\ failed_idx' = idx
    /\ misses_since_success' = misses_since_success + 1
    /\ exit_reason' = IF pc' = "done" THEN "exception" ELSE exit_reason

\* ret, frame = cap.read(); the two counters; display_frame = frame.copy()
Capture ==
    /\ pc = "capture"
    /\ \E ret \in BOOLEAN :
        IF ~ret
        THEN /\ pc' = "done"
             /\ exit_reason' = "capture_failed"
             /\ UNCHANGED << frame_count, frames_without_detection, rendered,
                             cycle_outcome >>
        ELSE /\ frame_count < MaxFrames
             /\ frame_count' = frame_count + 1
             /\ frames_without_detection' = frames_without_detection + 1
             /\ rendered' = <<>>
             /\ cycle_outcome' = "none"
             /\ pc' = IF DetectionDue(frame_count + 1) THEN "detect"
                                                       ELSE "cleanup"
             /\ UNCHANGED exit_reason
    /\ UNCHANGED << database, active_faces, use_cosine, detections, det_idx,
                    current_detected_faces, status_color, cycles_entered,
                    failed_idx, frames_rendered,
                    last_success_frame, last_success_results,
                    misses_since_success, blank_since_success, gap,
                    embedded, key_history,
                    cycle_start,
                    matchVars, alignVars, genVars >>

\* try: detections = self.detector.detect_faces(rgb_frame);
\*      current_detected_faces = []
Detect ==
    /\ pc = "detect"
    /\ cycles_entered' = cycles_entered + 1
    /\ cycle_start' = [entered |-> TRUE, active |-> active_faces,
                       fwd |-> frames_without_detection]
    /\ \/ \* detect_faces raises
          /\ Raised(0)
          /\ UNCHANGED << detections, det_idx, current_detected_faces >>
       \/ \E out \in DetectorOutputs :
          /\ detections' = out
          /\ det_idx' = 1
          /\ current_detected_faces' = <<>>
          /\ pc' = "loop"
          /\ UNCHANGED << active_faces, cycle_outcome, failed_idx,
                          misses_since_success, exit_reason >>
    /\ UNCHANGED << database, frame_count, frames_without_detection,
                    use_cosine, rendered, status_color,
                    frames_rendered, last_success_frame,
                    last_success_results, blank_since_success, gap,
                    embedded, key_history,
                    matchVars, alignVars, genVars >>

\* One pass of "for detection in detections".
ProcessDetection ==
    /\ pc = "loop"
    /\ det_idx <= Len(detections)
    /\ LET detection == detections[det_idx] IN
        IF LowConfidence(detection) \/ EmptyCrop(detection.box)
        THEN \* continue
             /\ det_idx' = det_idx + 1
             /\ UNCHANGED << database, embedded, current_detected_faces, pc,
                             active_faces, cycle_outcome, failed_idx,
                             misses_since_success, exit_reason >>
        ELSE \* get_face_embedding, then recognize_face
             /\ embedded' = Append(embedded, detection)
             /\ \E out \in EmbedderOutcomes(RunRawVectors) :
                LET result == Recognize(database, out, use_cosine)
                IN  /\ database' =
                          IF out.raised THEN database
                          ELSE DatabaseAfterRecognize(database,
                                                      Normalize(out.vector))
                    /\ IF result.raised
                       THEN /\ Raised(det_idx)
                            /\ UNCHANGED << det_idx, current_detected_faces >>
                       ELSE /\ current_detected_faces' =
                                  Append(current_detected_faces,
                                         [detection |-> detection,
                                          name |-> result.name,
                                          distance |-> result.distance])
                            /\ det_idx' = det_idx + 1
                            /\ UNCHANGED << pc, active_faces, cycle_outcome,
                                            failed_idx, misses_since_success,
                                            exit_reason >>
    /\ UNCHANGED << frame_count, frames_without_detection,
                    use_cosine, detections, rendered,
                    status_color, cycles_entered, frames_rendered,
                    last_success_frame, last_success_results,
                    blank_since_success, gap, key_history, cycle_start,
                    matchVars, alignVars, genVars >>

\* LOGICA DE PERSISTENCIA, reached when the for loop is exhausted.
Persist ==
    /\ pc = "loop"
    /\ det_idx > Len(detections)
    /\ active_faces' = PersistActive(active_faces, current_detected_faces)
    /\ frames_without_detection' =
           PersistCounter(frames_without_detection, current_detected_faces)
    /\ pc' = "cleanup"
    /\ IF Len(current_detected_faces) > 0
       THEN /\ cycle_outcome' = "results"
            /\ gap' = [valid |-> last_success_frame > 0,
                       misses |-> misses_since_success,
                       blank |-> blank_since_success,
                       prev |-> active_faces]
            /\ last_success_frame' = frame_count
            /\ last_success_results' = current_detected_faces
            /\ misses_since_success' = 0
            /\ blank_since_success' = FALSE
       ELSE /\ cycle_outcome' = "empty"
            /\ misses_since_success' = misses_since_success + 1
            /\ UNCHANGED << gap, last_success_frame, last_success_results,
                            blank_since_success >>
    /\ UNCHANGED << database, frame_count, use_cosine, detections, det_idx,
                    current_detected_faces, rendered, status_color,
                    cycles_entered, failed_idx, frames_rendered, exit_reason,
                    embedded, key_history,
                    cycle_start,
                    matchVars, alignVars, genVars >>

\* FASE 2: LIMPIEZA.  The locals of the cycle are dead from here on.
Cleanup ==
    /\ pc = "cleanup"
    /\ active_faces' = IF Stale(frames_without_detection) THEN <<>>
                                                          ELSE active_faces
    /\ detections' = <<>>
    /\ det_idx' = 0
    /\ current_detected_faces' = <<>>
    /\ failed_idx' = 0
    /\ gap' = NoGap
    /\ embedded' = <<>>
    /\ cycle_start' = NoCycle
    /\ pc' = "draw"
    /\ UNCHANGED << database, frame_count, frames_without_detection,
                    use_cosine, rendered, status_color, cycles_entered,
                    cycle_outcome, frames_rendered, exit_reason,
                    last_success_frame, last_success_results,
                    misses_since_success, blank_since_success, key_history, matchVars, alignVars, genVars >>

\* FASE 3: DIBUJAR, the status indicator and cv2.imshow.
Draw ==
    /\ pc = "draw"
    /\ rendered' = [i \in 1..Len(active_faces) |->
                      [face |-> active_faces[i],
                       drawn |-> draw_face_box(active_faces[i].detection,
                                               active_faces[i].name,
                                               active_faces[i].distance)]]
    /\ status_color' = StatusColor(frames_without_detection)
    /\ frames_rendered' = frames_rendered + 1
    /\ blank_since_success' =
           (blank_since_success
              \/ (last_success_frame > 0 /\ active_faces = <<>>))
    /\ pc' = "key"
    /\ UNCHANGED << database, frame_count, frames_without_detection,
                    active_faces, use_cosine, detections, det_idx,
                    current_detected_faces, cycles_entered, cycle_outcome,
                    failed_idx, exit_reason, last_success_frame,
                    last_success_results, misses_since_success, gap,
                    embedded, key_history,
                    cycle_start,
                    matchVars, alignVars, genVars >>

\* key = cv2.waitKey(1) & 0xFF
PollKey ==
    /\ pc = "key"
    /\ \E key \in { "q", "c", "other" } :
        /\ pc' = AfterKey(key)
        /\ exit_reason' = IF pc' = "done" THEN "quit" ELSE exit_reason
        /\ use_cosine' = ToggleMetric(key, use_cosine)
        /\ active_faces' = ActiveAfterKey(key, active_faces)
        /\ key_history' = KeyHistoryAfter(key_history, key, use_cosine,
                                          use_cosine')
    /\ UNCHANGED << database, frame_count, frames_without_detection,
                    detections, det_idx,
                    current_detected_faces, rendered, status_color,
                    cycles_entered, cycle_outcome, failed_idx,
                    frames_rendered,
                    last_success_frame, last_success_results,
                    misses_since_success, blank_since_success, gap,
                    embedded, cycle_start,
                    matchVars, alignVars, genVars >>

Next ==
    \/ Startup
    \/ OpenCamera
    \/ Capture
    \/ Detect
    \/ ProcessDetection
    \/ Persist
    \/ Cleanup
    \/ Draw
    \/ PollKey

Spec == Init /\ [][Next]_vars

\* ------------------------------------------- the matcher on one query
\* The detection handed to draw_face_box with the match.
MatchDetection == [box |-> <<-10, 50, 100, 100>>, confidence |-> 90]

\* A loaded database, a raw vector of the embedder, a metric.
InitMatch ==
    /\ database \in Stores
    /\ RunLocalsInit
    /\ pc = "off"
    /\ m_pc = "embed"
    /\ m_raw \in RawVectors
    /\ m_cos \in BOOLEAN
    /\ m_query = <<>>
    /\ m_result = None
    /\ m_drawn = None
    /\ AlignIdle
    /\ GenIdle

\* get_face_embedding: embedding = embedding / np.linalg.norm(embedding)
MEmbed ==
    /\ m_pc = "embed"
    /\ m_query' = Normalize(m_raw)
    /\ m_pc' = "recognize"
    /\ UNCHANGED << database, runVars, m_raw, m_cos, m_result, m_drawn,
                    alignVars, genVars >>

\* name, distance = self.recognize_face(face_embedding, use_cosine)
MRecognize ==
    /\ m_pc = "recognize"
    /\ m_result' = recognize_face(database, m_query, m_cos)
    /\ m_pc' = IF m_result'.raised THEN "raised" ELSE "draw"
    /\ database' = DatabaseAfterRecognize(database, m_query)
    /\ UNCHANGED << runVars, m_raw, m_cos, m_query, m_drawn,
                    alignVars, genVars >>

\* self.draw_face_box(display_frame, detection, name, distance)
MDraw ==
    /\ m_pc = "draw"
    /\ m_drawn' = draw_face_box(MatchDetection, m_result.name,
                                m_result.distance)
    /\ m_pc' = "drawn"
    /\ UNCHANGED << database, runVars, m_raw, m_cos, m_query, m_result,
                    alignVars, genVars >>

NextMatch == MEmbed \/ MRecognize \/ MDraw

SpecMatch == InitMatch /\ [][NextMatch]_vars

\* ------------------------------------------ align_face on one detection
\* Boxes a detector may report on an image: inside it, across an edge,
\* beyond it, with a negative origin.
AlignBoxes ==
    { << x, y, w, h >> : x \in { -300, -10, 0, 100, 600, 650, 700 },
                         y \in { -300, 0, 100, 450, 500 },
                         w \in { 50, 100 },
                         h \in { 50, 100 } }

\* An image of the camera's size, a box, an output size.
InitAlign ==
    /\ database = None
    /\ RunLocalsInit
    /\ pc = "off"
    /\ MatchIdle
    /\ a_pc = "align"
    /\ a_shape = << FRAME_WIDTH, FRAME_HEIGHT >>
    /\ a_box \in AlignBoxes
    /\ a_size \in { IMAGE_SIZE, IMAGE_SIZE \div 2 }
    /\ a_face = None
    /\ GenIdle

\* aligned_face = align_face(image, detection)
AAlign ==
    /\ a_pc = "align"
    /\ a_face' = align_face(a_shape, a_box, a_size)
    /\ a_pc' = "aligned"
    /\ UNCHANGED << database, runVars, matchVars, a_shape, a_box, a_size,
                    genVars >>

NextAlign == AAlign

SpecAlign == InitAlign /\ [][NextAlign]_vars

\* --------------------------------------------------- generate_embeddings
\* The person directories under ALIGNED_FACES_DIR.
GenPersons == { "Ana", "Luis" }

\* A person directory with its image files, in os.listdir order.
PersonEntries ==
    { [name |-> n, files |-> [i \in 1..k |-> i]] :
        n \in GenPersons, k \in 0..MaxImages }

\* persons with their image_files: every directory once.
GenTrees ==
    { s \in SeqsUpTo(PersonEntries, Cardinality(GenPersons)) :
        \A i, j \in 1..Len(s) : i # j => s[i].name # s[j].name }

\* Raw vectors the embedder returns for an enrolment image; the contract of
\* the embedder excludes no real vector.
GenRawVectors == { <<3, 4>>, <<1, 1>>, <<0, 0>> }

\* What happens to one image: cv2.imread returns None, a call inside the
\* try block raises, or the embedder returns a vector.
GenOutcomes ==
    { [kind |-> "unreadable", vector |-> <<>>],
      [kind |-> "raised", vector |-> <<>>] }
        \cup { [kind |-> "loaded", vector |-> v] : v \in GenRawVectors }

\* os.path.join(person_dir, image_file)
ImagePath(person_name, image_file) ==
    [dir |-> person_name, file |-> image_file]

\* Variant of StoreImage: the path of the image is not recorded.
StoreImageNoPath(db, embedding, person_name, image_path) ==
    [db EXCEPT !.embeddings = Append(@, embedding),
               !.labels = Append(@, person_name)]

\* The three appends after the normalisation.
StoreImage(db, embedding, person_name, image_path) ==
    [db EXCEPT !.embeddings = Append(@, embedding),
               !.labels = Append(@, person_name),
               !.image_paths = Append(@, image_path)]

\* generate_embeddings is called on some directory tree.
InitGen ==
    /\ database = None
    /\ RunLocalsInit
    /\ pc = "off"
    /\ MatchIdle
    /\ AlignIdle
    /\ g_pc = "start"
    /\ g_tree \in GenTrees
    /\ g_person = None
    /\ g_files = <<>>
    /\ g_db = NewDatabase
    /\ g_saved = None
    /\ g_log = <<>>

\* The two early returns, then embeddings_database = {...}.
GStart ==
    /\ g_pc = "start"
    /\ \E dir_exists \in BOOLEAN :
          g_pc' = IF ~dir_exists \/ g_tree = <<>> THEN "returned"
                                                  ELSE "persons"
    /\ g_db' = NewDatabase
    /\ UNCHANGED << database, runVars, matchVars, alignVars, g_tree,
                    g_person, g_files, g_saved, g_log >>

\* for person_name in persons: image_files = os.listdir(person_dir)
GNextPerson ==
    /\ g_pc = "persons"
    /\ g_tree # <<>>
    /\ g_person' = Head(g_tree).name
    /\ g_files' = Head(g_tree).files
    /\ g_tree' = Tail(g_tree)
    /\ g_pc' = "images"
    /\ UNCHANGED << database, runVars, matchVars, alignVars, g_db, g_saved,
                    g_log >>

\* One pass of "for idx, image_file in enumerate(image_files, 1)".
GProcessImage ==
    /\ g_pc = "images"
    /\ g_files # <<>>
    /\ LET image_path == ImagePath(g_person, Head(g_files)) IN
       \E out \in GenOutcomes :
          /\ g_db' = IF out.kind = "loaded"
                     THEN StoreImage(g_db, Normalize(out.vector), g_person,
                                     image_path)
                     ELSE g_db
          /\ g_log' = Append(g_log, [path |-> image_path, kind |-> out.kind])
    /\ g_files' = Tail(g_files)
    /\ UNCHANGED << database, runVars, matchVars, alignVars, g_pc, g_tree,
                    g_person, g_saved >>

\* The statistics of the person: nothing is stored.
GPersonDone ==
    /\ g_pc = "images"
    /\ g_files = <<>>
    /\ g_pc' = "persons"
    /\ UNCHANGED << database, runVars, matchVars, alignVars, g_tree,
                    g_person, g_files, g_db, g_saved, g_log >>

\* np.array of the three lists, pickle.dump.
GSave ==
    /\ g_pc = "persons"
    /\ g_tree = <<>>
    /\ g_saved' = g_db
    /\ g_pc' = "saved"
    /\ UNCHANGED << database, runVars, matchVars, alignVars, g_tree,
                    g_person, g_files, g_db, g_log >>

NextGen == GStart \/ GNextPerson \/ GProcessImage \/ GPersonDone \/ GSave

SpecGen == InitGen /\ [][NextGen]_vars

\* ------------------------------------------------------------ properties
\* The faces handed to draw_face_box on the frame just shown.
Shown == [i \in 1..Len(rendered) |-> rendered[i].face]

\* The entries of a sequence, as a set.
Range(seq) == { seq[i] : i \in 1..Len(seq) }

\* C1: after a cycle with k >= 1 results at frame T and no later cycle with
\* results, the faces drawn on every frame T .. T + PERSISTENCE_LIMIT are
\* exactly those results, and nothing is drawn on frame
\* T + PERSISTENCE_LIMIT + 1.
C1_PersistenceWindow ==
    (pc = "key" /\ last_success_frame > 0) =>
        LET age == frame_count - last_success_frame
        IN  /\ age <= PERSISTENCE_LIMIT =>
                 /\ Shown = last_success_results
                 /\ Len(Shown) >= 1
            /\ age = PERSISTENCE_LIMIT + 1 => Shown = <<>>

\* The last frame of the window: results of frame T still drawn on frame
\* T + PERSISTENCE_LIMIT although a later cycle (at T + N) found nothing.
C1_Witness ==
    /\ pc = "key"
    /\ last_success_frame > 0
    /\ frame_count = last_success_frame + PERSISTENCE_LIMIT
    /\ misses_since_success >= 1
    /\ Len(Shown) >= 1

\* C2: after F captured frames the detect/embed/match pipeline has been
\* entered exactly F \div N times (on frames N, 2N, ...), whatever the
\* detector returned and whether or not a cycle raised.
C2_CyclesEveryNth ==
    /\ pc = "detect" =>
         /\ frame_count % process_every_n_frames = 0
         /\ cycles_entered = frame_count \div process_every_n_frames - 1
    /\ pc # "detect" =>
         cycles_entered = frame_count \div process_every_n_frames

\* The third cycle has been entered on frame 3N and raised.
C2_Witness ==
    /\ frame_count = 3 * process_every_n_frames
    /\ cycles_entered = 3
    /\ cycle_outcome = "raised"

\* C3: when a cycle ends with a non-empty result list, the memory is exactly
\* that list (no old entry survives unless the new list holds it) and
\* frames_without_detection is 0.
C3_WholesaleReplace ==
    (pc = "cleanup" /\ cycle_outcome = "results") =>
        /\ Len(current_detected_faces) > 0
        /\ active_faces = current_detected_faces
        /\ \A e \in Range(gap.prev) :
              e \in Range(active_faces) => e \in Range(current_detected_faces)
        /\ frames_without_detection = 0

\* Two faces were in the memory, the cycle found one of them only, and the
\* other is gone.
C3_Witness ==
    /\ pc = "cleanup"
    /\ cycle_outcome = "results"
    /\ Len(gap.prev) = 2
    /\ Len(active_faces) = 1
    /\ active_faces[1] = gap.prev[1]
    /\ gap.prev[2] \notin Range(active_faces)

\* C4: no step of a cycle that ends with an empty result list changes the
\* memory or frames_without_detection.
C4_EmptyCycleLeavesMemory ==
    [][(pc \in {"detect", "loop"} /\ cycle_outcome' \in {"none", "empty"})
         => /\ active_faces' = active_faces
            /\ frames_without_detection' = frames_without_detection]_vars

\* A cycle whose detections were all filtered out ended empty with faces in
\* the memory and the counter at this frame's value.
C4_Witness ==
    /\ pc = "cleanup"
    /\ cycle_outcome = "empty"
    /\ Len(detections) > 0
    /\ Len(active_faces) > 0
    /\ frames_without_detection = process_every_n_frames

\* C5: when the handling of one detection raises, every other detection of
\* the cycle that passes the confidence floor and has a non-empty crop still
\* has its result in the cycle's result list.  (Stated for a database with
\* records, where the matcher itself cannot fail.)
C5_PerDetectionIsolation ==
    ( /\ pc = "cleanup"
      /\ cycle_outcome = "raised"
      /\ failed_idx > 0
      /\ Len(database.embeddings) > 0 ) =>
        \A i \in 1..Len(detections) :
            ( /\ i # failed_idx
              /\ ~LowConfidence(detections[i])
              /\ CropSize(detections[i].box) > 0 )
            => \E j \in 1..Len(current_detected_faces) :
                  current_detected_faces[j].detection = detections[i]

\* C6: an exception in a cycle never ends the loop: every captured frame is
\* shown, the loop is left only through a failed capture or the quit key,
\* and after a cycle that raised the loop goes on.
C6_ExceptionNeverEndsLoop ==
    /\ pc \in {"capture", "key", "done"} => frames_rendered = frame_count
    /\ pc = "done" => exit_reason \in {"capture_failed", "quit"}
    /\ cycle_outcome = "raised" =>
          pc \in {"cleanup", "draw", "key", "capture", "done"}

\* The frame whose cycle raised has been shown and the loop is about to
\* capture the next frame.
C6_Witness ==
    /\ pc = "capture"
    /\ cycle_outcome = "raised"
    /\ frames_rendered = frame_count
    /\ exit_reason = "none"

\* C7: between two cycles with results that are separated by a single cycle
\* without results, every frame is shown with at least one face.
C7_NoFlickerOnSingleMiss ==
    (gap.valid /\ gap.misses = 1) => ~gap.blank

\* The distances of the database records from the query just matched.
MDistances == Distances(database, m_query, m_cos)

\* d is the least of the distances.
IsMin(distances, d) ==
    /\ \E i \in 1..Len(distances) : distances[i] = d
    /\ \A i \in 1..Len(distances) : d <= distances[i]

C9_FirstMinimumWins ==
    (m_pc \in {"draw", "drawn"} /\ m_result.name # None) =>
        \E i \in 1..Len(MDistances) :
            /\ MDistances[i] = m_result.distance
            /\ \A j \in 1..(i - 1) : MDistances[j] > m_result.distance
            /\ m_result.name = database.labels[i]

\* Two records with different labels tie at the minimum and the label of
\* the earlier one is returned.
C9_Witness ==
    /\ m_pc = "draw"
    /\ \E i, j \in 1..Len(MDistances) :
          /\ i < j
          /\ MDistances[i] = m_result.distance
          /\ MDistances[j] = m_result.distance
          /\ database.labels[i] # database.labels[j]
          /\ m_result.name = database.labels[i]

\* (R - distance) / R * 100 clamped to [0, 100], in reliability units.
ClampedReliability(distance) ==
    Min2(100 * PCT,
         Max2(0, ((RELIABILITY_SPAN - distance) * 100 * PCT)
                    \div RELIABILITY_SPAN))

\* C10: the reliability drawn for a match is (R - distance) / R * 100
\* clamped to [0, 100]: never below 0, never above 100, and not larger
\* than the reliability of any smaller distance.
C10_ReliabilityClamped ==
    m_pc = "drawn" =>
        /\ m_drawn.reliability = ClampedReliability(m_result.distance)
        /\ m_drawn.reliability >= 0
        /\ m_drawn.reliability <= 100 * PCT
        /\ \A d \in Range(MDistances) :
              d >= m_result.distance => Reliability(d) <= m_drawn.reliability


\* C11: when the database file is absent at the start, load_database fails,
\* main reports it and the session ends before the frame loop: no frame is
\* captured, no cycle runs and nothing is drawn or shown.
C11_MissingStoreAborts ==
    exit_reason = "store_not_found" =>
        /\ pc = "aborted"
        /\ database = None
        /\ frame_count = 0
        /\ cycles_entered = 0
        /\ frames_rendered = 0
        /\ rendered = <<>>

\* The session has ended on the missing file.
C11_Witness ==
    /\ pc = "aborted"
    /\ exit_reason = "store_not_found"
    /\ frame_count = 0

\* The configured embedding dimension (config.EMBEDDING_SIZE is 128; the
\* vectors of this model have 2 components).
EMBEDDING_SIZE == 2

\* The check the database format asks of its consumers.
ValidDatabase(db) ==
    /\ Len(db.embeddings) = Len(db.labels)
    /\ Len(db.labels) = Len(db.image_paths)
    /\ \A i \in 1..Len(db.embeddings) : Len(db.embeddings[i]) = EMBEDDING_SIZE

\* C12: a loaded database whose three sequences differ in length, or whose
\* vectors have another dimension than the configured one, is a fatal
\* start error: no frame is ever matched against it.
C12_InvalidStoreNeverMatched ==
    (pc \in {"loop", "cleanup"} /\ Len(current_detected_faces) > 0) =>
        ValidDatabase(database)


\* An entry of the memory can only come from a cycle that ended with results.
EmptyUntilSuccess ==
    (active_faces = <<>> /\ active_faces' # <<>>) =>
        /\ pc = "loop"
        /\ cycle_outcome' = "results"
        /\ Len(current_detected_faces) > 0
        /\ active_faces' = current_detected_faces
        /\ last_success_frame' = frame_count

\* C13: the memory of run starts empty and stays empty until a cycle yields
\* at least one result: it is empty on every frame before the first cycle
\* with results, and once the last cycle with results is more than
\* PERSISTENCE_LIMIT frames old it is empty on every frame shown until the
\* next cycle with results; it leaves the empty state only by such a cycle.
C13_EmptyUntilSuccess ==
    /\ [](last_success_frame = 0 => (active_faces = <<>> /\ rendered = <<>>))
    /\ []((pc \in {"draw", "key"}
            /\ frame_count - last_success_frame > PERSISTENCE_LIMIT)
           => active_faces = <<>>)
    /\ [][EmptyUntilSuccess]_vars

\* Cleared as stale after results on frame N, and still empty three frames
\* of the empty state later, a cycle without results in between.
C13_Witness ==
    /\ pc = "key"
    /\ last_success_frame = process_every_n_frames
    /\ frame_count = last_success_frame + PERSISTENCE_LIMIT + 3
    /\ misses_since_success >= 1
    /\ active_faces = <<>>
    /\ Shown = <<>>

\* C14: where the memory is drawn, a non-empty memory implies
\* frames_without_detection <= PERSISTENCE_LIMIT; once the counter exceeds
\* the limit the memory is empty.
C14_ActiveImpliesFresh ==
    pc \in {"draw", "key"} =>
        /\ active_faces # <<>> => frames_without_detection <= PERSISTENCE_LIMIT
        /\ frames_without_detection > PERSISTENCE_LIMIT => active_faces = <<>>
        /\ pc = "key" /\ Shown # <<>> =>
               frames_without_detection <= PERSISTENCE_LIMIT

\* Faces drawn with the counter exactly at the limit.
C14_Witness ==
    /\ pc = "key"
    /\ Shown # <<>>
    /\ active_faces # <<>>
    /\ frames_without_detection = PERSISTENCE_LIMIT


\* The detection the for loop of the cycle is about to handle.
AtDetection == pc = "loop" /\ det_idx <= Len(detections)

\* The detections that got as far as the embedder, the results of the cycle
\* and the memory.
Handled ==
    Range(embedded)
        \cup { e.detection : e \in Range(current_detected_faces) }
        \cup { e.detection : e \in Range(active_faces) }

\* The for loop goes on to the next detection: nothing embedded, nothing
\* added, nothing raised.
SkippedStep ==
    /\ det_idx' = det_idx + 1
    /\ pc' = "loop"
    /\ detections' = detections
    /\ embedded' = embedded
    /\ current_detected_faces' = current_detected_faces
    /\ cycle_outcome' = cycle_outcome
    /\ failed_idx' = failed_idx
    /\ misses_since_success' = misses_since_success

\* C15: a detection with confidence below CONFIDENCE_THRESHOLD is dropped:
\* it never reaches the embedder or the matcher and never enters the results
\* or the memory, and the loop goes on with the next detection without an
\* error; a detection with confidence equal to the threshold (and a
\* non-empty crop) is handed to the embedder.
C15_LowConfidenceDiscarded ==
    /\ [](\A d \in Handled : d.confidence >= CONFIDENCE_THRESHOLD)
    /\ [][(AtDetection
            /\ detections[det_idx].confidence < CONFIDENCE_THRESHOLD)
           => SkippedStep]_vars
    /\ [][(AtDetection
            /\ detections[det_idx].confidence >= CONFIDENCE_THRESHOLD
            /\ CropSize(detections[det_idx].box) > 0)
           => embedded' = Append(embedded, detections[det_idx])]_vars

\* A cycle over a detection below the threshold and then one exactly at it:
\* the second one alone was embedded and is the result of the cycle.
C15_Witness ==
    /\ pc = "cleanup"
    /\ cycle_outcome = "results"
    /\ Len(detections) = 2
    /\ detections[1].confidence < CONFIDENCE_THRESHOLD
    /\ detections[2].confidence = CONFIDENCE_THRESHOLD
    /\ embedded = << detections[2] >>
    /\ Len(current_detected_faces) = 1
    /\ current_detected_faces[1].detection = detections[2]

\* C17: a detection whose crop has zero area is skipped without an error:
\* the embedder is not called for it, it adds no entry to the results, and
\* the loop goes on with the next detection.
C17_EmptyCropSkipped ==
    /\ [](\A d \in Handled : CropSize(d.box) > 0)
    /\ [][(AtDetection /\ CropSize(detections[det_idx].box) = 0)
           => SkippedStep]_vars

\* A cycle over a confident detection outside the frame and then a face:
\* the face alone was embedded and is the result of the cycle.
C17_Witness ==
    /\ pc = "cleanup"
    /\ cycle_outcome = "results"
    /\ Len(detections) = 2
    /\ detections[1].confidence >= CONFIDENCE_THRESHOLD
    /\ CropSize(detections[1].box) = 0
    /\ embedded = << detections[2] >>
    /\ Len(current_detected_faces) = 1
    /\ current_detected_faces[1].detection = detections[2]


\* One pass of the while loop runs capture, cycle (if due), cleanup, drawing
\* and the key poll in this order, and nothing leaves a cycle half way.
IterationOrder ==
    /\ pc \in {"detect", "loop"} => pc' \in {"loop", "cleanup"}
    /\ pc = "cleanup" => pc' = "draw"
    /\ pc = "draw" => pc' = "key"
    /\ pc = "key" => pc' \in {"capture", "done"}

\* A key is read only by the poll at the end of a pass, after the frame of
\* the pass has been shown.
KeyReadAtEndOfPass ==
    (key_history' # key_history \/ use_cosine' # use_cosine
        \/ (exit_reason' = "quit" /\ exit_reason # "quit")) =>
        /\ pc = "key"
        /\ frames_rendered = frame_count
        /\ detections = <<>>
        /\ frame_count' = frame_count

\* C18: the quit key is examined once per pass of the while loop, after the
\* cycle of the frame (if any), the cleanup and the drawing: a cycle that
\* has started runs to its end, and once the quit key is read the loop
\* ends: no further frame is captured or handled.
C18_QuitOnlyBetweenFrames ==
    /\ [][IterationOrder]_vars
    /\ [][KeyReadAtEndOfPass]_vars
    /\ [](key_history.last = "q" =>
            (pc = "done" /\ exit_reason = "quit"
               /\ frames_rendered = frame_count))
    /\ [][pc # "done"]_vars

\* The quit key read at the end of frame N, whose cycle found a face and
\* ran to its end before the key was looked at.
C18_Witness ==
    /\ pc = "done"
    /\ exit_reason = "quit"
    /\ key_history.last = "q"
    /\ frame_count = process_every_n_frames
    /\ cycle_outcome = "results"
    /\ Len(Shown) >= 1
    /\ frames_rendered = frame_count


\* C19 as stated: the metric key and the quit key are idempotent: the same
\* key on two consecutive frames leaves the session where the first of the
\* two deliveries left it.
C19_KeysIdempotent ==
    key_history.count = 2 =>
        use_cosine = key_history.after_first

\* C19, amended: the quit key is absorbing and the metric key is an
\* involution, not idempotent.  The first quit key ends the loop, so a
\* second one is never read; one metric key switches the metric, and the
\* same key on the next frame switches it back to the metric in use before
\* the first; any other key leaves the metric alone.
C19_ToggleIsInvolution ==
    /\ (key_history.last = "c" /\ key_history.count = 1) =>
           use_cosine = ~key_history.before
    /\ (key_history.last = "c" /\ key_history.count = 2) =>
           /\ use_cosine = key_history.before
           /\ use_cosine = ~key_history.after_first
    /\ key_history.last = "q" =>
           /\ key_history.count = 1
           /\ pc = "done"
           /\ use_cosine = key_history.before
    /\ key_history.last = "other" =>
           /\ use_cosine = key_history.before
           /\ use_cosine = key_history.after_first

\* The metric key on two consecutive frames: the metric of before the first
\* is in use again and the loop goes on.
C19_Witness ==
    /\ pc = "capture"
    /\ frame_count >= 2
    /\ key_history.last = "c"
    /\ key_history.count = 2
    /\ use_cosine = key_history.before
    /\ use_cosine # key_history.after_first


\* C20: the database loaded at the start is never modified during the
\* session: whatever step is taken after load_database (a frame, a cycle, a
\* match, a metric key, a caught exception), its embeddings, labels and
\* paths are the same sequences in the same order.
C20_StoreReadOnly ==
    [][pc # "start" => database' = database]_vars

\* Thirty frames into a session on the two-person database: a cycle with a
\* match on frame N, a metric key, a cycle that raised on frame 2N.
C20_Witness ==
    /\ pc = "key"
    /\ frame_count = 2 * process_every_n_frames
    /\ last_success_frame = process_every_n_frames
    /\ cycle_outcome = "raised"
    /\ ~use_cosine
    /\ Len(active_faces) >= 1
    /\ database = StoreAnaLuis


\* The box has no pixel in common with the image.
EntirelyOutside(shape, box) ==
    \/ box[1] + box[3] <= 0
    \/ box[2] + box[4] <= 0
    \/ box[1] >= shape[1]
    \/ box[2] >= shape[2]

\* Every pixel of the box is a pixel of the image.
FullyInside(shape, box) ==
    /\ box[1] >= 0
    /\ box[2] >= 0
    /\ box[3] > 0
    /\ box[4] > 0
    /\ box[1] + box[3] <= shape[1]
    /\ box[2] + box[4] <= shape[2]

\* C16: align_face returns None when the box lies entirely outside the
\* image, boxes with a negative origin included, and an image of exactly
\* output_size x output_size when the box lies fully inside the image.
C16_NormalizerContract ==
    a_pc = "aligned" =>
        /\ EntirelyOutside(a_shape, a_box) => a_face.empty
        /\ FullyInside(a_shape, a_box) =>
               /\ ~a_face.empty
               /\ a_face.width = a_size
               /\ a_face.height = a_size


\* What FASE 1 leaves when the cycle finds nothing: the memory and the
\* counter it was entered with.
LeftAsEntered ==
    /\ cycle_start.entered
    /\ active_faces = cycle_start.active
    /\ frames_without_detection = cycle_start.fwd
    /\ frames_without_detection >= 1

\* C22: a cycle that raises leaves the memory and the counter exactly as a
\* cycle without results does: the memory is the one from before the cycle,
\* frames_without_detection is not reset, and the results gathered for
\* earlier detections of the cycle are dropped, not installed.
C22_RaisedCycleLikeEmpty ==
    (pc = "cleanup" /\ cycle_outcome \in {"raised", "empty"}) =>
        /\ LeftAsEntered
        /\ last_success_frame < frame_count
        /\ (cycle_outcome = "raised" /\ Len(current_detected_faces) > 0) =>
               \/ active_faces # current_detected_faces
               \/ cycle_start.active = current_detected_faces

\* The second detection of a cycle raised after the first had been matched,
\* while the memory held the results of an earlier cycle.
C22_Witness ==
    /\ pc = "cleanup"
    /\ cycle_outcome = "raised"
    /\ failed_idx = 2
    /\ Len(current_detected_faces) = 1
    /\ Len(active_faces) >= 1
    /\ active_faces = cycle_start.active
    /\ active_faces # current_detected_faces
    /\ frames_without_detection = process_every_n_frames


\* C23: on every frame shown with a non-empty memory the status indicator
\* is green, and it is red only on frames whose memory is empty (cleared as
\* stale).
C23_GreenWhileShown ==
    pc = "key" =>
        /\ Shown # <<>> => status_color = "green"
        /\ status_color = "red" => (Shown = <<>> /\ active_faces = <<>>)


\* C24: while every cycle since the one on frame T has yielded results, the
\* memory drawn on every frame from T on is non-empty: the cycles are
\* process_every_n_frames apart, which does not exceed PERSISTENCE_LIMIT, so
\* the counter never passes the limit between two such cycles.
C24_NoGapWhileCyclesSucceed ==
    /\ process_every_n_frames <= PERSISTENCE_LIMIT
    /\ (last_success_frame > 0 /\ misses_since_success = 0) =>
           /\ frames_without_detection <= process_every_n_frames
           /\ active_faces # <<>>
           /\ pc = "key" => (Shown = active_faces /\ Shown # <<>>)
           /\ ~blank_since_success
    /\ (gap.valid /\ gap.misses = 0) => ~gap.blank

\* The cycle on frame 2N yields results right after the one on frame N did:
\* a face was drawn on every frame in between.
C24_Witness ==
    /\ pc = "cleanup"
    /\ frame_count = 2 * process_every_n_frames
    /\ cycle_outcome = "results"
    /\ gap.valid
    /\ gap.misses = 0
    /\ ~gap.blank
    /\ Len(gap.prev) >= 1


\* The step of the key poll that switches the metric.
MetricKeyStep == pc = "key" /\ use_cosine' # use_cosine

\* A result is added to the cycle's list: it is the match of some embedder
\* output under the metric in force during this cycle.
AddedUnderCurrentMetric ==
    (pc = "loop" /\ Len(current_detected_faces') > Len(current_detected_faces))
    => \E out \in EmbedderOutcomes(RunRawVectors) :
          LET r == Recognize(database, out, use_cosine)
          IN  /\ ~r.raised
              /\ current_detected_faces' =
                     Append(current_detected_faces,
                            [detection |-> detections[det_idx],
                             name |-> r.name, distance |-> r.distance])

\* C25: the metric key changes use_cosine and nothing else of the session:
\* the memory with its names and distances, frames_without_detection and
\* frame_count are unchanged.  The metric changes only at the key poll, so
\* it is first used by the next cycle, and the entries matched under the
\* old metric are drawn until a later cycle with results replaces them or
\* they expire.
C25_ToggleOnlyFlipsMetric ==
    /\ [][MetricKeyStep =>
            /\ use_cosine' = ~use_cosine
            /\ UNCHANGED << database, frame_count, frames_without_detection,
                            active_faces, rendered, status_color,
                            current_detected_faces, detections,
                            last_success_frame, last_success_results,
                            frames_rendered, exit_reason >>]_vars
    /\ [][use_cosine' # use_cosine => (pc = "key" /\ pc' = "capture")]_vars
    /\ [][AddedUnderCurrentMetric]_vars
    /\ []((pc = "key" /\ last_success_frame > 0
             /\ frame_count - last_success_frame <= PERSISTENCE_LIMIT)
           => (active_faces = last_success_results
                 /\ Shown = last_success_results))

\* The distance of a drawn entry that the matcher returns under one metric
\* and cannot return under the other.
OnlyUnder(distance, use_cos) ==
    /\ \E v \in RunRawVectors :
          recognize_face(database, Normalize(v), use_cos).distance = distance
    /\ \A v \in RunRawVectors :
          recognize_face(database, Normalize(v), ~use_cos).distance # distance

\* The metric key was pressed after a cycle with results: the session is on
\* the euclidean metric and still draws an entry whose distance is a cosine
\* distance.
C25_Witness ==
    /\ pc = "key"
    /\ ~use_cosine
    /\ key_history.last = "c"
    /\ key_history.count = 1
    /\ frame_count > last_success_frame
    /\ Len(Shown) >= 1
    /\ Shown = last_success_results
    /\ database = StoreAnaLuis
    /\ OnlyUnder(Shown[1].distance, TRUE)


\* run has been entered: the database is loaded.
InSession ==
    pc \in {"capture", "detect", "loop", "cleanup", "draw", "key", "done"}

\* C26: with a database of zero records the session still runs: a cycle
\* that hands a detection to the embedder and the matcher raises inside the
\* try block and is caught, the memory is empty on every frame, every
\* captured frame is shown, and the loop ends only by the quit key or a
\* failed capture.
C26_EmptyStoreSessionRuns ==
    (InSession /\ Len(database.embeddings) = 0) =>
        /\ active_faces = <<>>
        /\ current_detected_faces = <<>>
        /\ rendered = <<>>
        /\ last_success_frame = 0
        /\ cycle_outcome \in {"none", "empty", "raised"}
        /\ embedded # <<>> =>
               /\ pc = "cleanup"
               /\ cycle_outcome = "raised"
               /\ Len(embedded) = 1
               /\ failed_idx >= 1
               /\ detections[failed_idx] = embedded[1]
        /\ pc = "key" => frames_rendered = frame_count
        /\ pc = "done" => exit_reason \in {"quit", "capture_failed"}

\* Frame 2N of a session on the empty database: the cycle of frame N had
\* failed and the loop went on; this cycle skipped its first detection and
\* raised when the second one reached the matcher.
C26_Witness ==
    /\ pc = "cleanup"
    /\ Len(database.embeddings) = 0
    /\ frame_count = 2 * process_every_n_frames
    /\ cycles_entered = 2
    /\ cycle_outcome = "raised"
    /\ failed_idx = 2
    /\ embedded = << detections[2] >>
    /\ misses_since_success = 2
    /\ frames_rendered = frame_count - 1
    /\ active_faces = <<>>


\* A component of the vector is nan.
HasNaN(v) == \E i \in 1..Len(v) : v[i] = NaN

\* What rounding every component to 1/Q can add to the squared norm.
NormTolerance == 2 * Q

\* The euclidean norm of v is 1 within the tolerance of the arithmetic.
UnitNorm(v) ==
    /\ ~HasNaN(v)
    /\ Abs(Dot(v, v) - DistOne) <= NormTolerance

\* C21: every vector generate_embeddings writes to the database has
\* euclidean norm 1 within the tolerance, whatever vector the embedder
\* returned for the image.
C21_StoredVectorsUnitNorm ==
    \A i \in 1..Len(g_db.embeddings) : UnitNorm(g_db.embeddings[i])

\* The three lists have one length and the i-th label is the directory of
\* the i-th path.
Aligned(db) ==
    /\ Len(db.embeddings) = Len(db.labels)
    /\ Len(db.labels) = Len(db.image_paths)
    /\ \A i \in 1..Len(db.labels) : db.labels[i] = db.image_paths[i].dir

\* The images of the log that were stored.
LoadedPaths ==
    LET loaded == SelectSeq(g_log, LAMBDA r : r.kind = "loaded")
    IN  [i \in 1..Len(loaded) |-> loaded[i].path]

\* The effect of handling one image.
ImageStepEffect ==
    (g_pc = "images" /\ g_log' # g_log) =>
        LET last == g_log'[Len(g_log')]
        IN  /\ last.path = ImagePath(g_person, Head(g_files))
            /\ last.kind \in {"unreadable", "raised"} => g_db' = g_db
            /\ last.kind = "loaded" =>
                   /\ Len(g_db'.embeddings) = Len(g_db.embeddings) + 1
                   /\ g_db'.labels = Append(g_db.labels, g_person)
                   /\ g_db'.image_paths = Append(g_db.image_paths, last.path)
            /\ g_pc' = "images"
            /\ g_files' = Tail(g_files)
            /\ g_tree' = g_tree

\* C27: after every image handled by generate_embeddings (stored, not
\* loadable, or failing with an exception) embeddings, labels and
\* image_paths have the same length and the i-th label is the person
\* directory of the i-th path; an image that cannot be loaded or whose
\* handling raises adds nothing to any of the three and the remaining
\* images are still handled; the file written holds these lists.
C27_ListsAligned ==
    /\ [](Aligned(g_db) /\ g_db.image_paths = LoadedPaths)
    /\ [][ImageStepEffect]_vars
    /\ [](g_pc = "saved" => (g_saved = g_db /\ g_files = <<>>
                               /\ g_tree = <<>>))

\* Two persons with two images each: the first image of Ana could not be
\* loaded, the first of Luis raised, and the database written holds the
\* other two, in order.
C27_Witness ==
    /\ g_pc = "saved"
    /\ Len(g_log) = 4
    /\ g_log[1].kind = "unreadable"
    /\ g_log[2].kind = "loaded"
    /\ g_log[3].kind = "raised"
    /\ g_log[4].kind = "loaded"
    /\ g_saved.labels = << "Ana", "Luis" >>
    /\ g_saved.image_paths = << ImagePath("Ana", 2), ImagePath("Luis", 2) >>
    /\ Len(g_saved.embeddings) = 2

====
